---- MODULE Spec2Model ----
(***************************************************************************)
(* Order lifecycle ledger of the Agroverse shop back end                   *)
(* (google-app-script/agroverse_shop_checkout.gs).                         *)
(*                                                                         *)
(* The ledger is the "Orders" tab of a spreadsheet.  Row 1 of the tab is   *)
(* the header; `sheet` holds the rows below it, so that sheet[i] is        *)
(* data[i] of getDataRange().getValues() (0-based, header at index 0) and  *)
(* lives in spreadsheet row i + 1.                                         *)
(*                                                                         *)
(* Every Apps Script execution (a doPost, a doGet, a time-driven run of    *)
(* sendTrackingEmails) is a process; each call on the spreadsheet or on    *)
(* the mail service is one step.  The code takes no lock (no LockService), *)
(* so steps of different executions interleave.                            *)
(***************************************************************************)
EXTENDS Integers, Sequences, FiniteSets, TLC

\* ---------------------------------------------------------------- bounds
MaxRows  == 2      \* rows the tab may hold below the header
MaxClock == 2      \* the clock runs 1..MaxClock
MaxMail  == 2      \* mails the mail service accepts in all
MaxDigits == 13    \* longest run of digits in a tracking number tried
MaxQuantity == 3   \* the largest quantity of an item, either side of 0

\* ---------------------------------------------------------------- values
TxIds       == {"tx_1", "tx_2"}
Completed   == "checkout.session.completed"
EventTypes  == {Completed, "payment_intent.succeeded"}
Signatures  == {"", "sig_bad", "sig_good"}   \* "" is a missing parameter
ValidSignature == "sig_good"                  \* validates against the secret
Carts       == {"missing", "noItems", "empty", "items"}
Tracking    == {"1Z999AA10123456784", " "}    \* what the administrator types
Statuses    == {"Placed", "Shipped"}
Handlers    == {"h1", "h2"}                   \* concurrent web executions
Runs        == {"r1", "r2"}                   \* concurrent trigger executions

\* session.id of an event whose data.object carries no id
Undefined   == "undefined"

\* customer_details.email of the session with this id ("" when omitted)
EmailOf(id) == IF id = "tx_1" THEN "a@b.com" ELSE ""

\* The header of the Orders tab: the name of column k is Columns[k].
Columns ==
  <<"sessionId", "email", "date", "status", "items", "shippingAddress",
    "trackingNumber", "emailSent", "lastUpdated">>

\* Web requests.  A POST carries the parsed body (an action with a cart, or
\* a processor event with its type and data.object.id) and the
\* stripe-signature parameter; a GET carries action getOrderStatus and the
\* session id.  ok: the external service the execution calls first (the
\* processor for a checkout, the spreadsheet otherwise) answers.
Request(a, sig, type, id, cart, ok) ==
  [action |-> a, signature |-> sig, type |-> type, id |-> id,
   cart |-> cart, ok |-> ok]

\* The processor is called only for a cart with items.
CheckoutRequests ==
  {Request("createCheckoutSession", "", "none", "none", c, TRUE) : c \in Carts}
    \cup {Request("createCheckoutSession", "", "none", "none", "items", FALSE)}

\* The spreadsheet is opened only for a payment-completed event that
\* carries the signature parameter.
EventRequests ==
  {Request("none", sig, Completed, id, "missing", ok) :
     sig \in Signatures \ {""}, id \in TxIds, ok \in BOOLEAN}
    \cup {Request("none", sig, "payment_intent.succeeded", "tx_1", "missing", TRUE) :
            sig \in Signatures \ {""}}
    \cup {Request("none", "", Completed, id, "missing", TRUE) : id \in TxIds}

StatusRequests ==
  {Request("getOrderStatus", "", "none", id, "missing", TRUE) :
     id \in TxIds \cup {"cs_unknown"}}
    \cup {Request("getOrderStatus", "", "none", "tx_1", "missing", FALSE)}

\* Payment-completed events whose data.object has no id.
MissingIdRequests ==
  {Request("none", ValidSignature, Completed, Undefined, "missing", TRUE)}

\* The action of a request whose body JSON.parse cannot read.
Unparsable == "unparsable"

\* Requests that put the routing of doPost to the test: a session-creation
\* body sent with the signature parameter, and bodies that are not JSON,
\* sent without and with it.
RoutingRequests ==
  {Request("createCheckoutSession", ValidSignature, "none", "none", "items", TRUE),
   Request(Unparsable, "", "none", "none", "missing", TRUE),
   Request(Unparsable, ValidSignature, "none", "none", "missing", TRUE)}

NoRequest == Request("none", "", "none", "none", "missing", TRUE)

VARIABLES
  sheet,      \* rows of the Orders tab below the header
  now,        \* the clock read by new Date()
  hpc,        \* per web execution: "idle" or "append"
  hreq,       \* per web execution: the request it is serving
  call,       \* the request of the web execution that took this step
  resp,       \* the response body this step returned ("none": none)
  wlog,       \* the line this step wrote last with Logger.log, and its id
  order,      \* the order in the response this step returned
  fetch,      \* this step called the payment processor (UrlFetchApp.fetch)
  page,       \* what the checkout page did on the submit of this step
  link,       \* the tracking number this step derived a link for, and the link
  halt,       \* the trigger execution this step ended at its loop head
  items,      \* the items of the cart stored in the browser (localStorage)
  tap,        \* the click on an "Add to Cart" button made in this step
  form,       \* the checkout page: where its submit handler is, its loading
              \* state, the errors it shows, the cart the handler has read,
              \* the cart in the request it has sent, the last response,
              \* and whether the browser has left
  rpc,        \* per trigger execution: "idle", "send", "mark8", "mark9"
  rdata,      \* per trigger execution: the values read at its start
  ri,         \* per trigger execution: the loop index i
  rsent,      \* per trigger execution: did the mail of this iteration go out
  outbox,     \* mails the mail service accepted, per loop index (row)
  failed,     \* loop indexes whose sendEmail or setValue has thrown
  markLost    \* loop indexes whose setValue('Yes') threw after an accepted mail

vars == <<sheet, now, hpc, hreq, call, resp, wlog, order, fetch, page, link,
          halt, items, tap, form, rpc, rdata, ri, rsent, outbox, failed, markLost>>

hvars == <<hpc, hreq>>
out == <<call, resp, wlog, order, fetch, page, link, halt>>
rvars == <<rpc, rdata, ri, rsent>>
ghost == <<outbox, failed, markLost>>
browser == <<items, tap, form>>

NoLine == [line |-> "none", id |-> "none"]
Line(text, id) == [line |-> text, id |-> id]

NoOrder ==
  [sessionId |-> "none", email |-> "none", date |-> 0, status |-> "none",
   trackingNumber |-> "none", emailSent |-> "none", lastUpdated |-> 0]

\* No tracking link derived in this step.
NoLink == [number |-> <<>>, url |-> [carrier |-> "none", label |-> <<>>]]

\* No submit of the checkout form in this step.
NoSubmit ==
  [valid |-> TRUE, cart |-> "none", errors |-> "none", loading |-> FALSE,
   sent |-> NoRequest]

\* No trigger execution ended at its loop head in this step.
NoHalt == [at |-> 0, data |-> <<>>]

\* No click on an "Add to Cart" button in this step.
NoTap == [productId |-> "none", was |-> 0, valid |-> FALSE, saved |-> FALSE]

\* The checkout page as initCheckout leaves it.
FormAtRest ==
  [pc |-> "form", loading |-> FALSE, errors |-> "none", cart |-> <<>>,
   sent |-> <<>>, response |-> "none", left |-> FALSE]

Init ==
  /\ sheet = <<>>
  /\ now = 1
  /\ hpc = [h \in Handlers |-> "idle"]
  /\ hreq = [h \in Handlers |-> NoRequest]
  /\ call = NoRequest
  /\ resp = "none"
  /\ wlog = NoLine
  /\ order = NoOrder
  /\ fetch = FALSE
  /\ page = NoSubmit
  /\ link = NoLink
  /\ halt = NoHalt
  /\ items = <<>>
  /\ tap = NoTap
  /\ form = FormAtRest
  /\ rpc = [r \in Runs |-> "idle"]
  /\ rdata = [r \in Runs |-> <<>>]
  /\ ri = [r \in Runs |-> 0]
  /\ rsent = [r \in Runs |-> FALSE]
  /\ outbox = [n \in 1..MaxRows |-> 0]
  /\ failed = {}
  /\ markLost = {}

\* No web execution, no trigger execution is in flight.
WebIdle == \A h \in Handlers : hpc[h] = "idle"
RunsIdle == \A r \in Runs : rpc[r] = "idle"

\* ------------------------------------------------------------- Row Store

\* findOrderRow with its loop started one row too far down.
FindOrderRowFromSecond(sh, sessionId) ==
  IF \E i \in 2..Len(sh) : sh[i].sessionId = sessionId
  THEN (CHOOSE i \in 2..Len(sh) :
          /\ sh[i].sessionId = sessionId
          /\ \A j \in 2..(i - 1) : sh[j].sessionId # sessionId) + 1
  ELSE 0

\* findOrderRow: the spreadsheet row number (1-based, header is row 1) of
\* the first row whose first cell is sessionId, 0 when there is none.
FindOrderRow(sh, sessionId) ==
  IF \E i \in 1..Len(sh) : sh[i].sessionId = sessionId
  THEN (CHOOSE i \in 1..Len(sh) :
          /\ sh[i].sessionId = sessionId
          /\ \A j \in 1..(i - 1) : sh[j].sessionId # sessionId) + 1
  ELSE 0

\* What a cell holds after a write of v: a write of undefined leaves the
\* cell blank.
CellOf(v) == IF v = Undefined THEN "" ELSE v

\* The row with the status cell filled in as Processing.
OrderRowProcessing(id, t) ==
  [sessionId |-> CellOf(id), email |-> EmailOf(id), date |-> t,
   status |-> "Processing", trackingNumber |-> "", emailSent |-> "No",
   lastUpdated |-> t]

\* The row saveOrderToSheet builds for a session (columns 1-4 and 7-9; the
\* items and address columns are written here and read only by the status
\* query).
OrderRow(id, t) ==
  [sessionId |-> CellOf(id), email |-> EmailOf(id), date |-> t, status |-> "Placed",
   trackingNumber |-> "", emailSent |-> "No", lastUpdated |-> t]

\* sheet.getRange(rowNumber, col).setValue(v) on the rows below the header.
SetValue(sh, rowNumber, col, v) ==
  [sh EXCEPT ![rowNumber - 1] = [@ EXCEPT ![col] = v]]

\* String.prototype.trim on the values a tracking cell can hold.
Trim(s) == IF s = " " THEN "" ELSE s

\* The test with its "email not sent" part left out.
EligibleIgnoringSent(row) ==
  row.trackingNumber # "" /\ Trim(row.trackingNumber) # ""

\* The test with the trim left out.
EligibleUntrimmed(row) ==
  row.trackingNumber # "" /\ row.emailSent # "Yes"

\* The test of sendTrackingEmails on one row of its data.
Eligible(row) ==
  row.trackingNumber # "" /\ Trim(row.trackingNumber) # "" /\ row.emailSent # "Yes"

\* The first loop index >= from whose row passes the test, 0 when none does.
NextEligible(data, from) ==
  IF \E i \in from..Len(data) : Eligible(data[i])
  THEN CHOOSE i \in from..Len(data) :
         Eligible(data[i]) /\ \A j \in from..(i - 1) : ~Eligible(data[j])
  ELSE 0

Appending == Cardinality({h \in Handlers : hpc[h] = "append"})
RECURSIVE SumTo(_, _)
SumTo(f, n) == IF n = 0 THEN 0 ELSE f[n] + SumTo(f, n - 1)
Mails == SumTo(outbox, MaxRows)

\* ------------------------------------------------------- web executions

\* The execution slot a new web request runs in ("none": all are busy).
FreeHandler ==
  IF \E h \in Handlers : hpc[h] = "idle"
  THEN CHOOSE h \in Handlers : hpc[h] = "idle"
  ELSE "none"

\* The execution slot a firing trigger runs in.
FreeRun ==
  IF \E r \in Runs : rpc[r] = "idle"
  THEN CHOOSE r \in Runs : rpc[r] = "idle"
  ELSE "none"

\* A web step that returns: its request, response body, log line, the
\* order in the body and whether the processor was called.
Respond(req, body, line, o, f) ==
  /\ call' = req
  /\ resp' = body
  /\ wlog' = line
  /\ order' = o
  /\ fetch' = f
  /\ page' = NoSubmit
  /\ link' = NoLink
  /\ halt' = NoHalt
  /\ UNCHANGED browser

\* A web step that returns a body without an order, the processor not
\* called.
Return(req, body, line) == Respond(req, body, line, NoOrder, FALSE)

\* A step in the browser or of the administrator's: no web execution
\* returns and no trigger execution is ended.
NoTraffic ==
  /\ call' = NoRequest
  /\ resp' = "none"
  /\ wlog' = NoLine
  /\ order' = NoOrder
  /\ fetch' = FALSE
  /\ page' = NoSubmit
  /\ link' = NoLink
  /\ halt' = NoHalt

\* A step that returns nothing to a web client.
Quiet ==
  /\ call' = NoRequest
  /\ resp' = "none"
  /\ wlog' = NoLine
  /\ order' = NoOrder
  /\ fetch' = FALSE
  /\ halt' = NoHalt
  /\ UNCHANGED browser

Silent == Quiet /\ page' = NoSubmit /\ link' = NoLink

\* createCheckoutSession with UrlFetchApp.fetch called whatever the cart.
CreateCheckoutSessionAnyCart(req) ==
  /\ IF req.ok
     THEN Respond(req, "checkout", NoLine, NoOrder, TRUE)
     ELSE Respond(req, "error",
                  Line("Error creating checkout session", "none"), NoOrder, TRUE)
  /\ UNCHANGED <<sheet, hvars>>

\* createCheckoutSession with a row written for the session it creates.
CreateCheckoutSessionRecording(req) ==
  /\ IF req.cart # "items"
     THEN Return(req, "error", Line("Error creating checkout session", "none"))
          /\ UNCHANGED sheet
     ELSE IF req.ok
          THEN /\ Respond(req, "checkout", NoLine, NoOrder, TRUE)
               /\ sheet' = IF Len(sheet) + Appending < MaxRows
                           THEN Append(sheet, OrderRow("tx_1", now))
                           ELSE sheet
          ELSE /\ Respond(req, "error",
                          Line("Error creating checkout session", "none"),
                          NoOrder, TRUE)
               /\ UNCHANGED sheet
  /\ UNCHANGED hvars

\* createCheckoutSession: no spreadsheet access; a cart that is missing,
\* has no items list or an empty one throws before the processor is called;
\* otherwise the processor answers with a session or with an error.
CreateCheckoutSession(req) ==
  /\ IF req.cart # "items"
     THEN Return(req, "error", Line("Error creating checkout session", "none"))
     ELSE IF req.ok
          THEN Respond(req, "checkout", NoLine, NoOrder, TRUE)
          ELSE Respond(req, "error",
                       Line("Error creating checkout session", "none"),
                       NoOrder, TRUE)
  /\ UNCHANGED <<sheet, hvars>>

\* handleStripeWebhook with a saveOrderToSheet that stamps the Last Updated
\* cell of the row it finds.
HandleStripeWebhookTouch(h, req) ==
  IF req.type = Completed
  THEN IF ~req.ok
       THEN /\ Return(req, "error", Line("Error handling webhook", req.id))
            /\ UNCHANGED <<sheet, hvars>>
       ELSE IF FindOrderRow(sheet, req.id) > 0
            THEN /\ Return(req, "received", Line("Order already exists", req.id))
                 /\ sheet' = SetValue(sheet, FindOrderRow(sheet, req.id),
                                      "lastUpdated", now)
                 /\ UNCHANGED hvars
            ELSE /\ Len(sheet) + Appending < MaxRows
                 /\ hpc' = [hpc EXCEPT ![h] = "append"]
                 /\ hreq' = [hreq EXCEPT ![h] = req]
                 /\ Silent
                 /\ UNCHANGED sheet
  ELSE Return(req, "received", NoLine) /\ UNCHANGED <<sheet, hvars>>

\* handleStripeWebhook with a saveOrderToSheet that writes the row it finds
\* anew.
HandleStripeWebhookUpsert(h, req) ==
  IF req.type = Completed
  THEN IF ~req.ok
       THEN /\ Return(req, "error", Line("Error handling webhook", req.id))
            /\ UNCHANGED <<sheet, hvars>>
       ELSE IF FindOrderRow(sheet, req.id) > 0
            THEN /\ Return(req, "received", Line("Order saved", req.id))
                 /\ sheet' = [sheet EXCEPT ![FindOrderRow(sheet, req.id) - 1] =
                                             OrderRow(req.id, now)]
                 /\ UNCHANGED hvars
            ELSE /\ Len(sheet) + Appending < MaxRows
                 /\ hpc' = [hpc EXCEPT ![h] = "append"]
                 /\ hreq' = [hreq EXCEPT ![h] = req]
                 /\ Silent
                 /\ UNCHANGED sheet
  ELSE Return(req, "received", NoLine) /\ UNCHANGED <<sheet, hvars>>

\* handleStripeWebhook without the test of the event type.
HandleStripeWebhookAnyType(h, req) ==
  IF ~req.ok
  THEN /\ Return(req, "error", Line("Error handling webhook", req.id))
       /\ UNCHANGED <<sheet, hvars>>
  ELSE IF FindOrderRow(sheet, req.id) > 0
       THEN /\ Return(req, "received", Line("Order already exists", req.id))
            /\ UNCHANGED <<sheet, hvars>>
       ELSE /\ Len(sheet) + Appending < MaxRows
            /\ hpc' = [hpc EXCEPT ![h] = "append"]
            /\ hreq' = [hreq EXCEPT ![h] = req]
            /\ Silent
            /\ UNCHANGED sheet

\* handleStripeWebhook up to and including the findOrderRow of
\* saveOrderToSheet.  The signature is read and never compared.
HandleStripeWebhook(h, req) ==
  IF req.type = Completed
  THEN IF ~req.ok
       THEN /\ Return(req, "error", Line("Error handling webhook", req.id))
            /\ UNCHANGED <<sheet, hvars>>
       ELSE IF FindOrderRow(sheet, req.id) > 0
            THEN /\ Return(req, "received", Line("Order already exists", req.id))
                 /\ UNCHANGED <<sheet, hvars>>
            ELSE /\ Len(sheet) + Appending < MaxRows
                 /\ hpc' = [hpc EXCEPT ![h] = "append"]
                 /\ hreq' = [hreq EXCEPT ![h] = req]
                 /\ Silent
                 /\ UNCHANGED sheet
  ELSE Return(req, "received", NoLine) /\ UNCHANGED <<sheet, hvars>>

\* doPost with the test of the signature parameter made before the test
\* of the body's action.
DoPostSignatureFirst(h, req, serial) ==
  /\ h = FreeHandler
  /\ serial => WebIdle
  /\ IF req.action = Unparsable
     THEN Return(req, "error", Line("Error in doPost", "none"))
          /\ UNCHANGED <<sheet, hvars>>
     ELSE IF req.signature # ""
          THEN HandleStripeWebhook(h, req)
          ELSE IF req.action = "createCheckoutSession"
               THEN CreateCheckoutSession(req)
               ELSE Return(req, "invalidAction", NoLine)
                    /\ UNCHANGED <<sheet, hvars>>
  /\ UNCHANGED <<now, rvars, ghost>>

\* doPost: the body is parsed (what JSON.parse throws is caught, logged and
\* answered with an error), then the routing on the body's action, then on
\* the signature parameter.
\* serial: the request arrives when no other web execution is in flight.
DoPost(h, req, serial) ==
  /\ h = FreeHandler
  /\ serial => WebIdle
  /\ IF req.action = Unparsable
     THEN Return(req, "error", Line("Error in doPost", "none"))
          /\ UNCHANGED <<sheet, hvars>>
     ELSE IF req.action = "createCheckoutSession"
          THEN CreateCheckoutSession(req)
          ELSE IF req.signature # ""
               THEN HandleStripeWebhook(h, req)
               ELSE Return(req, "invalidAction", NoLine)
                    /\ UNCHANGED <<sheet, hvars>>
  /\ UNCHANGED <<now, rvars, ghost>>

\* The append with a saveOrderToSheet that logs what appendRow throws and
\* does not throw it on.
AppendRowAcknowledging(h, storeOk) ==
  /\ hpc[h] = "append"
  /\ IF storeOk
     THEN /\ sheet' = Append(sheet, OrderRow(hreq[h].id, now))
          /\ Return(hreq[h], "received", Line("Order saved", hreq[h].id))
     ELSE /\ sheet' = sheet
          /\ Return([hreq[h] EXCEPT !.ok = FALSE], "received",
                    Line("Error saving order", hreq[h].id))
  /\ hpc' = [hpc EXCEPT ![h] = "idle"]
  /\ hreq' = [hreq EXCEPT ![h] = NoRequest]
  /\ UNCHANGED <<now, rvars, ghost>>

\* The new row put in above the rows there are, not below them.
AppendRowOnTop(h, storeOk) ==
  /\ hpc[h] = "append"
  /\ IF storeOk
     THEN /\ sheet' = <<OrderRow(hreq[h].id, now)>> \o sheet
          /\ Return(hreq[h], "received", Line("Order saved", hreq[h].id))
     ELSE /\ sheet' = sheet
          /\ Return([hreq[h] EXCEPT !.ok = FALSE], "error",
                    Line("Error handling webhook", hreq[h].id))
  /\ hpc' = [hpc EXCEPT ![h] = "idle"]
  /\ hreq' = [hreq EXCEPT ![h] = NoRequest]
  /\ UNCHANGED <<now, rvars, ghost>>

\* saveOrderToSheet from sheet.appendRow on, and the response of
\* handleStripeWebhook.
AppendRow(h, storeOk) ==
  /\ hpc[h] = "append"
  /\ IF storeOk
     THEN /\ sheet' = Append(sheet, OrderRow(hreq[h].id, now))
          /\ Return(hreq[h], "received", Line("Order saved", hreq[h].id))
     ELSE /\ sheet' = sheet
          /\ Return([hreq[h] EXCEPT !.ok = FALSE], "error",
                    Line("Error handling webhook", hreq[h].id))
  /\ hpc' = [hpc EXCEPT ![h] = "idle"]
  /\ hreq' = [hreq EXCEPT ![h] = NoRequest]
  /\ UNCHANGED <<now, rvars, ghost>>

\* data[k - 1] || '' on the values a cell can hold.
OrEmpty(v) == v

\* getOrderStatus reading the tracking number one column too far right.
GetOrderStatusWrongColumn(sh, sessionId) ==
  LET row == FindOrderRow(sh, sessionId) IN
  IF row <= 0
  THEN [body |-> "orderNotFound", order |-> NoOrder]
  ELSE LET data == sh[row - 1] IN
       [body |-> "order",
        order |-> [sessionId      |-> data[Columns[1]],
                   email          |-> data[Columns[2]],
                   date           |-> data[Columns[3]],
                   status         |-> data[Columns[4]],
                   trackingNumber |-> OrEmpty(data[Columns[8]]),
                   emailSent      |-> data[Columns[8]],
                   lastUpdated    |-> data[Columns[9]]]]

\* getOrderStatus with the spreadsheet available: the row number from
\* findOrderRow, the nine cells of that row, and the order built from them
\* by position (data[0] is column 1).
GetOrderStatus(sh, sessionId) ==
  LET row == FindOrderRow(sh, sessionId) IN
  IF row <= 0
  THEN [body |-> "orderNotFound", order |-> NoOrder]
  ELSE LET data == sh[row - 1] IN
       [body |-> "order",
        order |-> [sessionId      |-> data[Columns[1]],
                   email          |-> data[Columns[2]],
                   date           |-> data[Columns[3]],
                   status         |-> data[Columns[4]],
                   trackingNumber |-> OrEmpty(data[Columns[7]]),
                   emailSent      |-> data[Columns[8]],
                   lastUpdated    |-> data[Columns[9]]]]

\* doGet with a getOrderStatus whose catch answers 'Order not found'.
DoGetNotFoundOnError(req) ==
  /\ IF ~req.ok
     THEN Return(req, "orderNotFound", Line("Error getting order status", "none"))
     ELSE Respond(req, GetOrderStatus(sheet, req.id).body, NoLine,
                  GetOrderStatus(sheet, req.id).order, FALSE)
  /\ UNCHANGED <<sheet, now, hvars, rvars, ghost>>

\* doGet with a getOrderStatus that stamps the row it has read.
DoGetStamping(req) ==
  /\ IF ~req.ok
     THEN Return(req, "error", Line("Error getting order status", "none"))
          /\ UNCHANGED sheet
     ELSE /\ Respond(req, GetOrderStatus(sheet, req.id).body, NoLine,
                     GetOrderStatus(sheet, req.id).order, FALSE)
          /\ sheet' = IF FindOrderRow(sheet, req.id) > 0
                      THEN SetValue(sheet, FindOrderRow(sheet, req.id),
                                    Columns[9], now)
                      ELSE sheet
  /\ UNCHANGED <<now, hvars, rvars, ghost>>

\* doGet with action getOrderStatus.
DoGet(req) ==
  /\ IF ~req.ok
     THEN Return(req, "error", Line("Error getting order status", "none"))
     ELSE Respond(req, GetOrderStatus(sheet, req.id).body, NoLine,
                  GetOrderStatus(sheet, req.id).order, FALSE)
  /\ UNCHANGED <<sheet, now, hvars, rvars, ghost>>

\* ------------------------------------------------- sendTrackingEmails

\* The loop moves to index i (0: past the end, the execution is over).
LoopTo(r, data, i) ==
  IF i = 0
  THEN /\ rpc' = [rpc EXCEPT ![r] = "idle"]
       /\ rdata' = [rdata EXCEPT ![r] = <<>>]
       /\ ri' = [ri EXCEPT ![r] = 0]
  ELSE /\ rpc' = [rpc EXCEPT ![r] = "send"]
       /\ rdata' = [rdata EXCEPT ![r] = data]
       /\ ri' = [ri EXCEPT ![r] = i]

\* The time-driven trigger fires: the execution reads the whole tab.
Trigger(r, storeOk, single) ==
  /\ Silent
  /\ r = FreeRun
  /\ single => RunsIdle
  /\ IF storeOk
     THEN LoopTo(r, sheet, NextEligible(sheet, 1))
     ELSE UNCHANGED <<rpc, rdata, ri>>
  /\ UNCHANGED <<sheet, now, hvars, rsent, ghost>>

\* The send with a sendTrackingEmail that does not catch what
\* MailApp.sendEmail throws: the execution ends at the catch of
\* sendTrackingEmails.
SendTrackingEmailThrowing(r, mailOk) ==
  /\ Silent
  /\ rpc[r] = "send"
  /\ IF mailOk
     THEN /\ Mails < MaxMail
          /\ outbox' = [outbox EXCEPT ![ri[r]] = @ + 1]
          /\ rpc' = [rpc EXCEPT ![r] = "mark8"]
          /\ UNCHANGED <<failed, rdata, ri>>
     ELSE /\ failed' = failed \cup {ri[r]}
          /\ rpc' = [rpc EXCEPT ![r] = "idle"]
          /\ rdata' = [rdata EXCEPT ![r] = <<>>]
          /\ ri' = [ri EXCEPT ![r] = 0]
          /\ UNCHANGED outbox
  /\ rsent' = [rsent EXCEPT ![r] = mailOk]
  /\ UNCHANGED <<sheet, now, hvars, markLost>>

\* sendTrackingEmail for the row at the loop index; it catches and logs
\* what MailApp.sendEmail throws.
SendTrackingEmail(r, mailOk) ==
  /\ Silent
  /\ rpc[r] = "send"
  /\ IF mailOk
     THEN /\ Mails < MaxMail
          /\ outbox' = [outbox EXCEPT ![ri[r]] = @ + 1]
          /\ UNCHANGED failed
     ELSE /\ failed' = failed \cup {ri[r]}
          /\ UNCHANGED outbox
  /\ rsent' = [rsent EXCEPT ![r] = mailOk]
  /\ rpc' = [rpc EXCEPT ![r] = "mark8"]
  /\ UNCHANGED <<sheet, now, hvars, rdata, ri, markLost>>

\* The execution ends on an exception (caught and logged at the bottom).
Abort(r) ==
  /\ rpc' = [rpc EXCEPT ![r] = "idle"]
  /\ rdata' = [rdata EXCEPT ![r] = <<>>]
  /\ ri' = [ri EXCEPT ![r] = 0]

\* The execution stops at the head of the loop, before the test of the row
\* at the loop index: the host ends an execution that has run for too long.
\* The rows before the index have been dealt with, the others not yet.
Cancel(r) ==
  /\ rpc[r] = "send"
  /\ Abort(r)
  /\ call' = NoRequest
  /\ resp' = "none"
  /\ wlog' = NoLine
  /\ order' = NoOrder
  /\ fetch' = FALSE
  /\ page' = NoSubmit
  /\ link' = NoLink
  /\ halt' = [at |-> ri[r], data |-> rdata[r]]
  /\ UNCHANGED <<sheet, now, hvars, rsent, ghost, browser>>

\* The mark with the write of 'Yes' left out.
MarkSentSkipping(r, storeOk) ==
  /\ Silent
  /\ rpc[r] = "mark8"
  /\ IF storeOk
     THEN /\ rpc' = [rpc EXCEPT ![r] = "mark9"]
          /\ UNCHANGED <<sheet, rdata, ri, failed, markLost>>
     ELSE /\ Abort(r)
          /\ failed' = failed \cup {ri[r]}
          /\ markLost' = IF rsent[r] THEN markLost \cup {ri[r]} ELSE markLost
          /\ UNCHANGED sheet
  /\ rsent' = [rsent EXCEPT ![r] = FALSE]
  /\ UNCHANGED <<now, hvars, outbox>>

\* The mark made by writing the whole row back from the values read at the
\* start of the execution.
MarkSentWholeRow(r, storeOk) ==
  /\ Silent
  /\ rpc[r] = "mark8"
  /\ IF storeOk
     THEN /\ sheet' = [sheet EXCEPT ![ri[r]] =
                         [rdata[r][ri[r]] EXCEPT !.emailSent = "Yes"]]
          /\ rpc' = [rpc EXCEPT ![r] = "mark9"]
          /\ UNCHANGED <<rdata, ri, failed, markLost>>
     ELSE /\ Abort(r)
          /\ failed' = failed \cup {ri[r]}
          /\ markLost' = IF rsent[r] THEN markLost \cup {ri[r]} ELSE markLost
          /\ UNCHANGED sheet
  /\ rsent' = [rsent EXCEPT ![r] = FALSE]
  /\ UNCHANGED <<now, hvars, outbox>>

\* sheet.getRange(i + 1, 8).setValue('Yes')
MarkSent(r, storeOk) ==
  /\ Silent
  /\ rpc[r] = "mark8"
  /\ IF storeOk
     THEN /\ sheet' = SetValue(sheet, ri[r] + 1, Columns[8], "Yes")
          /\ rpc' = [rpc EXCEPT ![r] = "mark9"]
          /\ UNCHANGED <<rdata, ri, failed, markLost>>
     ELSE /\ Abort(r)
          /\ failed' = failed \cup {ri[r]}
          /\ markLost' = IF rsent[r] THEN markLost \cup {ri[r]} ELSE markLost
          /\ UNCHANGED sheet
  /\ rsent' = [rsent EXCEPT ![r] = FALSE]
  /\ UNCHANGED <<now, hvars, outbox>>

\* The stamp made by writing the whole row back from the values read at
\* the start of the execution.
MarkUpdatedWholeRow(r, storeOk) ==
  /\ Silent
  /\ rpc[r] = "mark9"
  /\ IF storeOk
     THEN /\ sheet' = [sheet EXCEPT ![ri[r]] =
                         [rdata[r][ri[r]] EXCEPT !.emailSent = "Yes",
                                                 !.lastUpdated = now]]
          /\ LoopTo(r, rdata[r], NextEligible(rdata[r], ri[r] + 1))
          /\ UNCHANGED failed
     ELSE /\ Abort(r)
          /\ failed' = failed \cup {ri[r]}
          /\ UNCHANGED sheet
  /\ UNCHANGED <<now, hvars, rsent, outbox, markLost>>

\* sheet.getRange(i + 1, 9).setValue(new Date().toISOString()), then on to
\* the next row that passes the test.
MarkUpdated(r, storeOk) ==
  /\ Silent
  /\ rpc[r] = "mark9"
  /\ IF storeOk
     THEN /\ sheet' = SetValue(sheet, ri[r] + 1, Columns[9], now)
          /\ LoopTo(r, rdata[r], NextEligible(rdata[r], ri[r] + 1))
          /\ UNCHANGED failed
     ELSE /\ Abort(r)
          /\ failed' = failed \cup {ri[r]}
          /\ UNCHANGED sheet
  /\ UNCHANGED <<now, hvars, rsent, outbox, markLost>>

\* --------------------------------------------------------- tracking link

\* A tracking number is the sequence of its characters.
Digits == {"0", "1", "2", "3", "4", "5", "6", "7", "8", "9"}
Uppers ==
  {"A", "B", "C", "D", "E", "F", "G", "H", "I", "J", "K", "L", "M",
   "N", "O", "P", "Q", "R", "S", "T", "U", "V", "W", "X", "Y", "Z"}
LowerToUpper ==
  [a |-> "A", b |-> "B", c |-> "C", d |-> "D", e |-> "E", f |-> "F",
   g |-> "G", h |-> "H", i |-> "I", j |-> "J", k |-> "K", l |-> "L",
   m |-> "M", n |-> "N", o |-> "O", p |-> "P", q |-> "Q", r |-> "R",
   s |-> "S", t |-> "T", u |-> "U", v |-> "V", w |-> "W", x |-> "X",
   y |-> "Y", z |-> "Z"]

\* String.prototype.trim: the part from the first to the last character
\* that is not white space.
TrimChars(str) ==
  LET inked == {k \in 1..Len(str) : str[k] # " "} IN
  IF inked = {}
  THEN <<>>
  ELSE SubSeq(str,
              CHOOSE k \in inked : \A m \in inked : k <= m,
              CHOOSE k \in inked : \A m \in inked : k >= m)

\* String.prototype.toUpperCase
ToUpperCase(str) ==
  [k \in 1..Len(str) |->
     IF str[k] \in DOMAIN LowerToUpper THEN LowerToUpper[str[k]] ELSE str[k]]

\* /^\d+[A-Z]{2}\d+US$/.test(str)
MatchesUsps(str) ==
  \E a \in 1..Len(str), b \in 1..Len(str) :
    /\ Len(str) = a + 2 + b + 2
    /\ \A k \in 1..a : str[k] \in Digits
    /\ str[a + 1] \in Uppers
    /\ str[a + 2] \in Uppers
    /\ \A k \in (a + 3)..(a + 2 + b) : str[k] \in Digits
    /\ str[a + b + 3] = "U"
    /\ str[a + b + 4] = "S"

\* str.startsWith('1Z')
StartsWith1Z(str) == Len(str) >= 2 /\ str[1] = "1" /\ str[2] = "Z"

\* /^\d{12}$/.test(str)
MatchesFedEx(str) == Len(str) = 12 /\ \A k \in 1..12 : str[k] \in Digits

\* A link: the carrier's tracking page and the number put after its "=".
Url(carrier, label) == [carrier |-> carrier, label |-> label]

\* getTrackingUrl with the test for UPS made first.
GetTrackingUrlUpsFirst(trackingNumber) ==
  LET trimmed == ToUpperCase(TrimChars(trackingNumber)) IN
  IF StartsWith1Z(trimmed) THEN Url("ups", trimmed)
  ELSE IF MatchesUsps(trimmed) THEN Url("usps", trimmed)
  ELSE IF MatchesFedEx(trimmed) THEN Url("fedex", trimmed)
  ELSE Url("usps", trimmed)

\* getTrackingUrl
GetTrackingUrl(trackingNumber) ==
  LET trimmed == ToUpperCase(TrimChars(trackingNumber)) IN
  IF MatchesUsps(trimmed) THEN Url("usps", trimmed)
  ELSE IF StartsWith1Z(trimmed) THEN Url("ups", trimmed)
  ELSE IF MatchesFedEx(trimmed) THEN Url("fedex", trimmed)
  ELSE Url("usps", trimmed)

\* n times the character c
Rep(c, n) == [k \in 1..n |-> c]

\* The tracking numbers tried: a run of the digit 1, letters, at most one
\* digit 2, an ending; two numbers with white space in front; and the four
\* numbers the specification names.
TrackingInputs ==
  {Rep("1", a) \o mid \o Rep("2", b) \o tail :
     a \in 0..MaxDigits,
     mid \in {<<>>, <<"Z">>, <<"Z", "A">>, <<"z", "a">>, <<"A", "B">>,
              <<"A", "B", "C">>},
     b \in 0..1,
     tail \in {<<>>, <<"U", "S">>, <<"u", "s">>, <<" ">>}}
  \cup {<<" ", "1", "Z", "2">>,
        <<" ", "1", "2", "A", "B", "2", "U", "S", " ">>,
        <<"1","Z","9","9","9","A","A","1","0","1","2","3","4","5","6","7","8","4">>,
        <<"9","4","0","0","1","1","1","8","9","9","2","2","3","1","9","7","4","2",
          "8","4","9","0">>,
        <<"1","2","3","4","5","6","7","8","9","0","1","2">>,
        <<"A","B","C","1","2","3">>}

\* sendTrackingEmail's (and the order-status page's) call of getTrackingUrl
\* on a tracking number.
DeriveLink(trackingNumber) ==
  /\ Quiet
  /\ page' = NoSubmit
  /\ link' = [number |-> trackingNumber, url |-> GetTrackingUrl(trackingNumber)]
  /\ UNCHANGED <<sheet, now, hvars, rvars, ghost>>

\* ---------------------------------------------------- order-status page

\* The page's getTrackingUrl with the toUpperCase left out.
PageGetTrackingUrlNoUpper(trackingNumber) ==
  IF trackingNumber = <<>> THEN NoLink.url
  ELSE LET trimmed == TrimChars(trackingNumber) IN
       IF MatchesUsps(trimmed) THEN Url("usps", trimmed)
       ELSE IF StartsWith1Z(trimmed) THEN Url("ups", trimmed)
       ELSE IF MatchesFedEx(trimmed) THEN Url("fedex", trimmed)
       ELSE Url("usps", trimmed)

\* getTrackingUrl of the order-status page: null for no tracking number,
\* and then the tests of the script's function in the same order.
PageGetTrackingUrl(trackingNumber) ==
  IF trackingNumber = <<>> THEN NoLink.url
  ELSE LET trimmed == ToUpperCase(TrimChars(trackingNumber)) IN
       IF MatchesUsps(trimmed) THEN Url("usps", trimmed)
       ELSE IF StartsWith1Z(trimmed) THEN Url("ups", trimmed)
       ELSE IF MatchesFedEx(trimmed) THEN Url("fedex", trimmed)
       ELSE Url("usps", trimmed)

\* displayOrderStatus on an order with this tracking number: the link of
\* the "Track Package" anchor.
DisplayOrderStatus(trackingNumber) ==
  /\ Quiet
  /\ page' = NoSubmit
  /\ link' = [number |-> trackingNumber,
              url |-> PageGetTrackingUrl(trackingNumber)]
  /\ UNCHANGED <<sheet, now, hvars, rvars, ghost>>

\* The error member of a response body ("": the body has none).  A caught
\* exception is sent as error.toString(), which starts with the name of
\* the exception.
ErrorText(body) ==
  CASE body = "orderNotFound" -> "Order not found"
    [] body = "invalidAction" -> "Invalid action"
    [] body = "error" -> "Exception: Service error: Spreadsheets"
    [] OTHER -> ""

\* fetchOrderStatus on a response: throws Error(data.error), or returns
\* data.order.  thrown is the message initOrderStatus then displays.
FetchOrderStatus(body, o) ==
  IF ErrorText(body) # ""
  THEN [thrown |-> ErrorText(body), order |-> NoOrder]
  ELSE [thrown |-> "", order |-> o]

\* -------------------------------------------------------- checkout page

\* What Cart.getCart() can hand to the page: a stored cart without an items
\* list, with an empty one, or with items.
PageCarts == {"noItems", "empty", "items"}

\* handleCheckoutSubmit up to the request it sends: form validation, the
\* cart check, then the loading state and createCheckoutSession, which
\* throws before its fetch when the script URL is not configured.
HandleCheckoutSubmit(valid, cart, configured) ==
  /\ Quiet
  /\ link' = NoLink
  /\ page' =
       IF ~valid
       THEN [valid |-> valid, cart |-> cart, errors |-> "form",
             loading |-> FALSE, sent |-> NoRequest]
       ELSE IF cart # "items"
            THEN [valid |-> valid, cart |-> cart, errors |-> "cart",
                  loading |-> FALSE, sent |-> NoRequest]
            ELSE IF ~configured
                 THEN [valid |-> valid, cart |-> cart, errors |-> "request",
                       loading |-> FALSE, sent |-> NoRequest]
                 ELSE [valid |-> valid, cart |-> cart, errors |-> "none",
                       loading |-> TRUE,
                       sent |-> Request("createCheckoutSession", "", "none",
                                        "none", cart, TRUE)]
  /\ UNCHANGED <<sheet, now, hvars, rvars, ghost>>

\* ----------------------------------------------------------------- cart

ProductIds == {"p1", "p2"}

\* The quantity arguments tried: the integers inside the bound.
QuantityArgs == (0 - MaxQuantity)..MaxQuantity

\* The products handed to Cart.add.  A member that is missing is "" (id,
\* name) or 0 (price; parseFloat of a missing price is NaN, falsy as 0 is).
Products ==
  {[productId |-> p, name |-> "Cacao", price |-> 25, quantity |-> q] :
     p \in ProductIds, q \in QuantityArgs}
    \cup {[productId |-> "", name |-> "Cacao", price |-> 25, quantity |-> 1],
          [productId |-> "p1", name |-> "", price |-> 25, quantity |-> 1],
          [productId |-> "p1", name |-> "Cacao", price |-> 0, quantity |-> 1]}

\* The sign and the decimal digits of an integer, as JSON.stringify and
\* String write it.
RECURSIVE DigitsOf(_)
DigitsOf(n) == IF n < 10 THEN <<n>> ELSE Append(DigitsOf(n \div 10), n % 10)

Stringify(n) ==
  [minus |-> n < 0, digits |-> DigitsOf(IF n < 0 THEN 0 - n ELSE n)]

\* parseInt(str, 10), and JSON.parse on a number.
RECURSIVE ValueOf(_)
ValueOf(ds) ==
  IF ds = <<>> THEN 0
  ELSE 10 * ValueOf(SubSeq(ds, 1, Len(ds) - 1)) + ds[Len(ds)]

ParseInt(str) ==
  IF str.minus THEN 0 - ValueOf(str.digits) ELSE ValueOf(str.digits)

\* JSON.parse(JSON.stringify(cart)).items
Stored(its) ==
  [k \in 1..Len(its) |->
     [productId |-> its[k].productId,
      quantity |-> ParseInt(Stringify(its[k].quantity))]]

\* saveCart: what localStorage holds afterwards (setItem may throw, and
\* then it holds what it held).
SaveCart(held, its, storageOk) == IF storageOk THEN Stored(its) ELSE held

\* cart.items.findIndex(item => item.productId === productId), 0 for -1.
FindIndex(its, productId) ==
  IF \E k \in 1..Len(its) : its[k].productId = productId
  THEN CHOOSE k \in 1..Len(its) :
         /\ its[k].productId = productId
         /\ \A j \in 1..(k - 1) : its[j].productId # productId
  ELSE 0

\* The quantity of a product in the cart, 0 when it has no item.
QuantityOf(its, productId) ==
  IF FindIndex(its, productId) = 0 THEN 0
  ELSE its[FindIndex(its, productId)].quantity

\* product.quantity || 1
OrOne(quantity) == IF quantity = 0 THEN 1 ELSE quantity

\* !product.productId || !product.name || !product.price
InvalidProduct(product) ==
  product.productId = "" \/ product.name = "" \/ product.price = 0

\* addToCart that pushes a new item whether or not the product has one.
AddToCartPushing(its, product, storageOk) ==
  IF InvalidProduct(product) THEN its
  ELSE SaveCart(its,
                Append(its, [productId |-> product.productId,
                             quantity |-> OrOne(product.quantity)]),
                storageOk)

\* addToCart: the stored items afterwards.
AddToCart(its, product, storageOk) ==
  IF InvalidProduct(product) THEN its
  ELSE LET existingIndex == FindIndex(its, product.productId) IN
       SaveCart(its,
                IF existingIndex > 0
                THEN [its EXCEPT ![existingIndex].quantity =
                                   @ + OrOne(product.quantity)]
                ELSE Append(its, [productId |-> product.productId,
                                  quantity |-> OrOne(product.quantity)]),
                storageOk)

\* cart.items.filter(item => item.productId !== productId)
RECURSIVE Without(_, _)
Without(its, productId) ==
  IF its = <<>> THEN <<>>
  ELSE IF Head(its).productId = productId
       THEN Without(Tail(its), productId)
       ELSE <<Head(its)>> \o Without(Tail(its), productId)

\* removeFromCart
RemoveFromCart(its, productId, storageOk) ==
  SaveCart(its, Without(its, productId), storageOk)

\* updateQuantity
UpdateQuantity(its, productId, quantity, storageOk) ==
  IF quantity <= 0 THEN RemoveFromCart(its, productId, storageOk)
  ELSE IF FindIndex(its, productId) > 0
       THEN SaveCart(its,
                     [its EXCEPT ![FindIndex(its, productId)].quantity =
                                   ParseInt(Stringify(quantity))],
                     storageOk)
       ELSE its

\* clearCart
ClearCart(its, storageOk) == SaveCart(its, <<>>, storageOk)

\* The quantities stay inside the bound.
Bounded(its) ==
  \A k \in 1..Len(its) : its[k].quantity \in (0 - MaxQuantity)..MaxQuantity

\* A call of the cart's API from a page.
CartCall(its) ==
  /\ NoTraffic
  /\ Bounded(its)
  /\ items' = its
  /\ tap' = NoTap
  /\ UNCHANGED <<form, sheet, now, hvars, rvars, ghost>>

CartAdd(product, storageOk) == CartCall(AddToCart(items, product, storageOk))

CartRemove(productId, storageOk) ==
  CartCall(RemoveFromCart(items, productId, storageOk))

CartUpdateQuantity(productId, quantity, storageOk) ==
  CartCall(UpdateQuantity(items, productId, quantity, storageOk))

CartClear(storageOk) == CartCall(ClearCart(items, storageOk))

\* --------------------------------------------------- add-to-cart buttons

\* The buttons of a product page: the data attributes of the button, and
\* whether it was in the document when initAddToCart ran (static) or was
\* put in later.
Buttons ==
  {[productId |-> p, name |-> "Cacao", price |-> 25, static |-> s] :
     p \in ProductIds, s \in BOOLEAN}
    \cup {[productId |-> "p1", name |-> "Cacao", price |-> 0, static |-> TRUE]}

\* The product handleAddToCart builds from the data attributes.
ProductOf(button) ==
  [productId |-> button.productId, name |-> button.name,
   price |-> button.price, quantity |-> 1]

\* handleAddToCart: the stored items afterwards.
HandleAddToCart(its, button, storageOk) ==
  IF InvalidProduct(ProductOf(button)) THEN its
  ELSE AddToCart(its, ProductOf(button), storageOk)

\* The click listeners initAddToCart has registered that a click on the
\* button reaches, in the order of the dispatch: the one on the button
\* itself (for a button in the document at that time), then, the click
\* bubbling, the one on the document.
Listeners(button) ==
  IF button.static THEN <<"button", "document">> ELSE <<"document">>

\* The stored items after the first n of the listeners have run.
RECURSIVE Dispatch(_, _, _, _)
Dispatch(its, button, n, storageOk) ==
  IF n = 0 THEN its
  ELSE HandleAddToCart(Dispatch(its, button, n - 1, storageOk), button,
                       storageOk)

\* One click on an "Add to Cart" button.
Click(button, storageOk) ==
  /\ NoTraffic
  /\ Bounded(Dispatch(items, button, Len(Listeners(button)), storageOk))
  /\ items' = Dispatch(items, button, Len(Listeners(button)), storageOk)
  /\ tap' = [productId |-> button.productId,
             was |-> QuantityOf(items, button.productId),
             valid |-> ~InvalidProduct(ProductOf(button)),
             saved |-> storageOk]
  /\ UNCHANGED <<form, sheet, now, hvars, rvars, ghost>>

\* ------------------------------------------- checkout page, step by step

\* What a session-creation request of the page can end in: fetch rejects,
\* a status that is not ok, a body that is not JSON, a body with an error
\* member, a body without a checkoutUrl, a body with one.
Outcomes == {"network", "notOk", "notJson", "error", "noUrl", "url"}

\* A step of the checkout page.
PageStep(f) ==
  /\ NoTraffic
  /\ form' = f
  /\ tap' = NoTap
  /\ UNCHANGED <<items, sheet, now, hvars, rvars, ghost>>

\* initCheckout: the page is loaded (anew).
InitCheckout == PageStep(FormAtRest)

\* setLoading(loading): the button and the inputs are disabled while the
\* page is loading.
SetLoading(f, loading) == [f EXCEPT !.loading = loading]

\* showErrors
ShowErrors(f, errors) == [f EXCEPT !.errors = errors]

\* handleCheckoutSubmit up to setLoading(true).  The form can be submitted
\* while its button and inputs are enabled.
CheckoutSubmit(valid) ==
  /\ form.pc = "form"
  /\ ~form.loading
  /\ ~form.left
  /\ LET cleared == [form EXCEPT !.errors = "none", !.response = "none",
                                 !.cart = <<>>, !.sent = <<>>] IN
     PageStep(IF ~valid THEN ShowErrors(cleared, "form")
              ELSE IF Len(items) = 0 THEN ShowErrors(cleared, "cart")
              ELSE [SetLoading(cleared, TRUE) EXCEPT !.pc = "create",
                                                     !.cart = items])

\* The catch of handleCheckoutSubmit with its setLoading(false) left out.
CatchCheckoutStillLoading(f, response) ==
  [ShowErrors(f, "request") EXCEPT !.pc = "form", !.response = response]

\* The catch of handleCheckoutSubmit.
CatchCheckout(f, response) ==
  [SetLoading(ShowErrors(f, "request"), FALSE) EXCEPT
     !.pc = "form", !.response = response]

\* createCheckoutSession up to its fetch: it throws when the script URL is
\* not configured, and sends the cart the handler has read otherwise.
CheckoutFetch(configured) ==
  /\ form.pc = "create"
  /\ PageStep(IF configured
              THEN [form EXCEPT !.pc = "waiting", !.sent = form.cart]
              ELSE CatchCheckout(form, "unconfigured"))

\* The rest of createCheckoutSession and of handleCheckoutSubmit: the
\* response is there; the browser goes to the checkout URL, or what was
\* thrown is shown.
CheckoutResponse(outcome) ==
  /\ form.pc = "waiting"
  /\ PageStep(IF outcome = "url"
              THEN [form EXCEPT !.pc = "left", !.response = outcome,
                                !.left = TRUE]
              ELSE CatchCheckout(form, outcome))

\* ---------------------------------------------------------- environment

\* The administrator fills in the tracking cell of a row, or moves its
\* status on from Placed.  (The administrator is outside the repository;
\* its edits are made once per cell.)
AdminWrite(n, col, v) ==
  /\ Silent
  /\ n \in 1..Len(sheet)
  /\ sheet[n][col] \in {"", "Placed"}
  /\ sheet[n][col] # v
  /\ sheet' = SetValue(sheet, n + 1, col, v)
  /\ UNCHANGED <<now, hvars, rvars, ghost>>

\* Time passes.  The clock is read only to stamp cells.
Tick ==
  /\ Silent
  /\ now < MaxClock
  /\ now' = now + 1
  /\ UNCHANGED <<sheet, hvars, rvars, ghost>>

\* The authentic payment-completed events.
PaidRequests ==
  {q \in EventRequests :
     q.signature = ValidSignature /\ q.type = Completed /\ q.ok}

\* ------------------------------------------------------- specifications

\* The web application.  Web executions run one after another and trigger
\* executions run one after another; a web execution, a trigger execution
\* and the administrator interleave.  Every kind of request arrives and
\* the spreadsheet may fail under a web execution; the mail service and
\* the spreadsheet work under the trigger executions.
Next ==
  \/ \E h \in Handlers, req \in CheckoutRequests \cup EventRequests :
       DoPost(h, req, TRUE)
  \/ \E h \in Handlers, storeOk \in BOOLEAN : AppendRow(h, storeOk)
  \/ \E req \in StatusRequests : DoGet(req)
  \/ \E r \in Runs : Trigger(r, TRUE, TRUE)
  \/ \E r \in Runs : SendTrackingEmail(r, TRUE)
  \/ \E r \in Runs : MarkSent(r, TRUE)
  \/ \E r \in Runs : MarkUpdated(r, TRUE)
  \/ \E n \in 1..MaxRows, v \in Tracking : AdminWrite(n, "trackingNumber", v)
  \/ \E n \in 1..MaxRows, v \in Statuses : AdminWrite(n, "status", v)
  \/ Tick

Spec == Init /\ [][Next]_vars

\* The dispatcher and its failures.  As Spec, with the mail service and
\* the spreadsheet failing under the trigger executions, and with the
\* authentic payment-completed events as the only requests.
NextDispatch ==
  \/ \E h \in Handlers, req \in PaidRequests : DoPost(h, req, TRUE)
  \/ \E h \in Handlers : AppendRow(h, TRUE)
  \/ \E r \in Runs, storeOk \in BOOLEAN : Trigger(r, storeOk, TRUE)
  \/ \E r \in Runs, mailOk \in BOOLEAN : SendTrackingEmail(r, mailOk)
  \/ \E r \in Runs, storeOk \in BOOLEAN : MarkSent(r, storeOk)
  \/ \E r \in Runs, storeOk \in BOOLEAN : MarkUpdated(r, storeOk)
  \/ \E n \in 1..MaxRows, v \in Tracking : AdminWrite(n, "trackingNumber", v)
  \/ \E n \in 1..MaxRows, v \in Statuses : AdminWrite(n, "status", v)
  \/ Tick

SpecDispatch == Init /\ [][NextDispatch]_vars

\* Overlapping executions: web executions overlap one another and trigger
\* executions overlap one another (the script takes no lock).  The
\* requests are the authentic payment-completed events, the administrator
\* fills in tracking numbers, and the clock stands still.
NextConc ==
  \/ \E h \in Handlers, req \in PaidRequests : DoPost(h, req, FALSE)
  \/ \E h \in Handlers : AppendRow(h, TRUE)
  \/ \E r \in Runs : Trigger(r, TRUE, FALSE)
  \/ \E r \in Runs : SendTrackingEmail(r, TRUE)
  \/ \E r \in Runs, storeOk \in BOOLEAN : MarkSent(r, storeOk)
  \/ \E r \in Runs : MarkUpdated(r, TRUE)
  \/ \E n \in 1..MaxRows :
       AdminWrite(n, "trackingNumber", "1Z999AA10123456784")

SpecConc == Init /\ [][NextConc]_vars

\* The dispatcher with a failing mail service: authentic payment-completed
\* events, the administrator's tracking numbers, and trigger executions one
\* after another under which MailApp.sendEmail may throw and the
\* spreadsheet works.  The clock stands still.
NextMail ==
  \/ \E h \in Handlers, req \in PaidRequests : DoPost(h, req, TRUE)
  \/ \E h \in Handlers : AppendRow(h, TRUE)
  \/ \E r \in Runs : Trigger(r, TRUE, TRUE)
  \/ \E r \in Runs, mailOk \in BOOLEAN : SendTrackingEmail(r, mailOk)
  \/ \E r \in Runs : MarkSent(r, TRUE)
  \/ \E r \in Runs : MarkUpdated(r, TRUE)
  \/ \E n \in 1..MaxRows :
       AdminWrite(n, "trackingNumber", "1Z999AA10123456784")

SpecMail == Init /\ [][NextMail]_vars

\* SpecMail with its scheduling: the time-driven trigger keeps firing, an
\* execution that has started takes its next step, and a send that is
\* tried again and again succeeds in the end.
SpecMailFair ==
  /\ SpecMail
  /\ WF_vars(\E r \in Runs : Trigger(r, TRUE, TRUE))
  /\ WF_vars(\E r \in Runs, mailOk \in BOOLEAN : SendTrackingEmail(r, mailOk))
  /\ SF_vars(\E r \in Runs : SendTrackingEmail(r, TRUE))
  /\ WF_vars(\E r \in Runs : MarkSent(r, TRUE))
  /\ WF_vars(\E r \in Runs : MarkUpdated(r, TRUE))

\* Trigger executions that the host may end at the loop head.  As SpecMail,
\* with the mail service working and the clock moving.
NextCancel ==
  \/ \E h \in Handlers, req \in PaidRequests : DoPost(h, req, TRUE)
  \/ \E h \in Handlers : AppendRow(h, TRUE)
  \/ \E r \in Runs : Trigger(r, TRUE, TRUE)
  \/ \E r \in Runs : SendTrackingEmail(r, TRUE)
  \/ \E r \in Runs : MarkSent(r, TRUE)
  \/ \E r \in Runs : MarkUpdated(r, TRUE)
  \/ \E r \in Runs : Cancel(r)
  \/ \E n \in 1..MaxRows :
       AdminWrite(n, "trackingNumber", "1Z999AA10123456784")
  \/ Tick

SpecCancel == Init /\ [][NextCancel]_vars

\* The web front: the checkout page, session creation, events (also
\* without an id), status queries and the administrator's tracking
\* numbers, with the spreadsheet and the processor failing.  No trigger
\* execution runs.
NextWeb ==
  \/ \E valid \in BOOLEAN, cart \in PageCarts, configured \in BOOLEAN :
       HandleCheckoutSubmit(valid, cart, configured)
  \/ \E h \in Handlers,
        req \in CheckoutRequests \cup EventRequests \cup MissingIdRequests
                  \cup RoutingRequests :
       DoPost(h, req, TRUE)
  \/ \E h \in Handlers, storeOk \in BOOLEAN : AppendRow(h, storeOk)
  \/ \E req \in StatusRequests : DoGet(req)
  \/ \E n \in 1..MaxRows :
       AdminWrite(n, "trackingNumber", "1Z999AA10123456784")
  \/ Tick

SpecWeb == Init /\ [][NextWeb]_vars

\* The derivation of tracking links, one tracking number after another.
NextLink == \E trackingNumber \in TrackingInputs : DeriveLink(trackingNumber)

SpecLink == Init /\ [][NextLink]_vars

\* The order-status page showing one order after another.
NextPage ==
  \E trackingNumber \in TrackingInputs : DisplayOrderStatus(trackingNumber)

SpecPage == Init /\ [][NextPage]_vars

\* The cart in the browser: calls of Cart.add, Cart.remove,
\* Cart.updateQuantity and Cart.clear in any order, and clicks on the
\* "Add to Cart" buttons; localStorage may refuse a write.
NextCart ==
  \/ \E product \in Products, storageOk \in BOOLEAN : CartAdd(product, storageOk)
  \/ \E productId \in ProductIds, storageOk \in BOOLEAN :
       CartRemove(productId, storageOk)
  \/ \E productId \in ProductIds, quantity \in QuantityArgs,
        storageOk \in BOOLEAN :
       CartUpdateQuantity(productId, quantity, storageOk)
  \/ \E storageOk \in BOOLEAN : CartClear(storageOk)
  \/ \E button \in Buttons, storageOk \in BOOLEAN : Click(button, storageOk)

SpecCart == Init /\ [][NextCart]_vars

\* The checkout page: the form is submitted, valid or not, with the cart
\* that Cart.add and Cart.clear have stored; the script URL is configured
\* or not; the request ends in any of its outcomes; the page is loaded anew.
NextCheckout ==
  \/ \E valid \in BOOLEAN : CheckoutSubmit(valid)
  \/ \E configured \in BOOLEAN : CheckoutFetch(configured)
  \/ \E outcome \in Outcomes : CheckoutResponse(outcome)
  \/ InitCheckout
  \/ \E productId \in ProductIds :
       CartAdd([productId |-> productId, name |-> "Cacao", price |-> 25,
                quantity |-> 1], TRUE)
  \/ CartClear(TRUE)

SpecCheckout == Init /\ [][NextCheckout]_vars

\* --------------------------------------------------------------- claims

\* The loop indexes of the rows whose first cell is t.
RowsOf(sh, t) == {n \in 1..Len(sh) : sh[n].sessionId = t}

\* This step returned from handleStripeWebhook on a payment-completed event.
CompletedEventReturned ==
  /\ call.action = "none"
  /\ call.signature # ""
  /\ call.type = Completed

\* C1.  Idempotent ingestion: when payment-completed events are delivered
\* one after another, no session id ever has two rows, and every delivery
\* answered with success (the first one, which appends, or a later one,
\* which finds the row) leaves exactly one row with the event's id.
C1_IdempotentIngestion ==
  /\ \A t \in TxIds : Cardinality(RowsOf(sheet, t)) <= 1
  /\ (CompletedEventReturned /\ resp = "received")
       => Cardinality(RowsOf(sheet, call.id)) = 1

\* An event was delivered again, at a later time than its row was written.
C1_Witness ==
  /\ CompletedEventReturned
  /\ wlog = Line("Order already exists", "tx_1")
  /\ resp = "received"
  /\ Len(sheet) = 1
  /\ sheet[1].date < now

\* C2.  Under overlapping ingestions of the same event, no two rows of the
\* tab carry the same session id.
C2_NoDuplicateRows ==
  \A m, n \in 1..Len(sheet) : sheet[m].sessionId = sheet[n].sessionId => m = n

\* C3.  A payment-completed event for an id that already has a row, served
\* with the spreadsheet available, is answered with success and leaves
\* every cell of every row as it was.
C3_Replay ==
  (CompletedEventReturned' /\ call'.ok /\ RowsOf(sheet, call'.id) # {})
    => (sheet' = sheet /\ resp' = "received")

C3_ReplayLeavesStore == [][C3_Replay]_vars

\* A replay answered after the row was given a tracking number, notified
\* and stamped by the dispatcher at a later time than its creation.
C3_Witness ==
  /\ CompletedEventReturned
  /\ wlog.line = "Order already exists"
  /\ resp = "received"
  /\ \E n \in RowsOf(sheet, call.id) :
       /\ sheet[n].trackingNumber # ""
       /\ sheet[n].emailSent = "Yes"
       /\ sheet[n].lastUpdated > sheet[n].date

\* C4.  Notification exactly once under normal operation, with trigger
\* executions one after another.  For a row on which no send and no cell
\* update has failed: at most one mail is ever accepted for it, it is marked
\* exactly when that mail has been accepted, an execution that ends has
\* mailed and marked every row that passed the test in its scan (up to the
\* first row on which something failed), and once the row is marked no
\* later step mails it or changes its mark or its stamp.
C4_OneMail ==
  \A n \in 1..Len(sheet) :
    n \notin failed =>
      /\ outbox[n] <= 1
      /\ sheet[n].emailSent = "Yes" => outbox[n] = 1
      /\ (outbox[n] = 1 /\ \A r \in Runs : ~(rpc[r] = "mark8" /\ ri[r] = n))
           => sheet[n].emailSent = "Yes"

C4_RunCompletes ==
  \A r \in Runs :
    (rpc[r] # "idle" /\ rpc'[r] = "idle") =>
      \A n \in 1..Len(rdata[r]) :
        (/\ Eligible(rdata[r][n])
         /\ \A m \in 1..n : Eligible(rdata[r][m]) => m \notin failed')
          => (sheet'[n].emailSent = "Yes" /\ outbox'[n] = 1)

C4_MarkedUntouched ==
  \A n \in 1..Len(sheet) :
    (sheet[n].emailSent = "Yes" /\ \A r \in Runs : ~(rpc[r] = "mark9" /\ ri[r] = n))
      => /\ outbox'[n] = outbox[n]
         /\ sheet'[n].emailSent = "Yes"
         /\ sheet'[n].lastUpdated = sheet[n].lastUpdated

C4_NotifiedExactlyOnce ==
  /\ [](C4_OneMail)
  /\ [][C4_RunCompletes /\ C4_MarkedUntouched]_vars

\* A later execution, whose scan saw row 1 marked, is at row 2; row 1 has
\* its one mail.
C4_Witness ==
  \E r \in Runs :
    /\ rpc[r] = "send"
    /\ ri[r] = 2
    /\ rdata[r][1].emailSent = "Yes"
    /\ rdata[r][1].trackingNumber = "1Z999AA10123456784"
    /\ sheet[1].emailSent = "Yes"
    /\ outbox[1] = 1
    /\ 1 \notin failed

\* C5.  A row is marked as notified only after a mail for it was accepted:
\* when MailApp.sendEmail throws, the row stays unmarked.
C5_MarkedOnlyAfterSend ==
  \A n \in 1..Len(sheet) : sheet[n].emailSent = "Yes" => outbox[n] >= 1

\* C6.  Single flight: at most one trigger execution is between its scan
\* and its end.
C6_SingleFlight == Cardinality({r \in Runs : rpc[r] # "idle"}) <= 1

\* C7.  A row gets a second accepted mail only after a mark of it was lost
\* (the mail was accepted and setValue('Yes') threw).
C7_SecondMailOnlyAfterLostMark ==
  \A n \in 1..MaxRows : outbox[n] >= 2 => n \in markLost

\* C8.  The notified flag is monotone: a row is created unmarked, a marked
\* row stays marked in every step, no row disappears, and the only step that
\* changes the flag of a row is the dispatcher's setValue('Yes').
C8_Step ==
  /\ Len(sheet') >= Len(sheet)
  /\ \A n \in 1..Len(sheet) :
       sheet[n].emailSent = "Yes" => sheet'[n].emailSent = "Yes"
  /\ \A n \in (Len(sheet) + 1)..Len(sheet') : sheet'[n].emailSent = "No"
  /\ (\E n \in 1..Len(sheet) : sheet'[n].emailSent # sheet[n].emailSent)
       => (call' = NoRequest /\ \E r \in Runs : rpc[r] = "mark8" /\ rpc'[r] = "mark9")

C8_NotifiedMonotone == [][C8_Step]_vars

\* The event of a marked row was delivered again.
C8_Witness ==
  /\ CompletedEventReturned
  /\ resp = "received"
  /\ \E n \in RowsOf(sheet, call.id) : sheet[n].emailSent = "Yes"

\* C9.  An event whose signature parameter is missing or does not validate
\* is answered with an error and writes no row.
C9_UnauthenticatedRejected ==
  (call # NoRequest /\ call.action = "none" /\ call.signature # ValidSignature)
    => (resp \in {"error", "invalidAction"} /\ wlog.line # "Order saved")

\* C10.  Only a payment-completed event is ingested: an authenticated event
\* of another type is answered with success and leaves the rows and the
\* executions as they were, and no execution is ever about to append for an
\* event of another type.
C10_OtherType ==
  (call'.action = "none" /\ call'.signature = ValidSignature
     /\ call'.type \notin {Completed, "none"})
    => (resp' = "received" /\ sheet' = sheet /\ hpc' = hpc)

C10_OnlyCompletedIngested ==
  /\ [](\A h \in Handlers : hpc[h] = "append" => hreq[h].type = Completed)
  /\ [][C10_OtherType]_vars

\* An authenticated event of another type was acknowledged while the tab
\* holds a row.
C10_Witness ==
  /\ call.signature = ValidSignature
  /\ call.type = "payment_intent.succeeded"
  /\ resp = "received"
  /\ Len(sheet) = 1

\* C11.  A row comes into being only in a step that answers a
\* payment-completed event, one row at a time and below the rows there
\* are, which stay as they were; the new row has the event's id, the
\* event's email (blank when the event has none), status Placed, a blank
\* tracking number and 'No' in the notified column.
C11_Step ==
  Len(sheet') > Len(sheet) =>
    /\ Len(sheet') = Len(sheet) + 1
    /\ \A n \in 1..Len(sheet) : sheet'[n] = sheet[n]
    /\ call'.type = Completed
    /\ resp' = "received"
    /\ sheet'[Len(sheet')].sessionId = call'.id
    /\ sheet'[Len(sheet')].email = (IF call'.id = "tx_1" THEN "a@b.com" ELSE "")
    /\ sheet'[Len(sheet')].status = "Placed"
    /\ sheet'[Len(sheet')].trackingNumber = ""
    /\ sheet'[Len(sheet')].emailSent = "No"

C11_NewRecordDefaults == [][C11_Step]_vars

\* The event of a session without an email has just been saved below an
\* older row.
C11_Witness ==
  /\ wlog = Line("Order saved", "tx_2")
  /\ Len(sheet) = 2
  /\ sheet[2].sessionId = "tx_2"
  /\ sheet[2].email = ""
  /\ sheet[2].status = "Placed"

\* C12.  Status read reflects the latest write: once a payment-completed
\* event has been answered with success its id has a row, and a status
\* query for an id that has a row, served with the spreadsheet available,
\* returns success with an order whose every field is what the row holds
\* in the cell of that field (the value written last by saveOrderToSheet,
\* by the administrator or by the dispatcher).
C12_ReadReflectsWrite ==
  /\ (CompletedEventReturned /\ resp = "received")
       => RowsOf(sheet, call.id) # {}
  /\ (call.action = "getOrderStatus" /\ call.ok /\ RowsOf(sheet, call.id) # {})
       => /\ resp = "order"
          /\ \E n \in RowsOf(sheet, call.id) :
               /\ order.sessionId = call.id
               /\ order.email = sheet[n].email
               /\ order.date = sheet[n].date
               /\ order.status = sheet[n].status
               /\ order.trackingNumber = sheet[n].trackingNumber
               /\ order.emailSent = sheet[n].emailSent
               /\ order.lastUpdated = sheet[n].lastUpdated

\* A query answered with a row that the administrator and the dispatcher
\* have written to since it was saved.
C12_Witness ==
  /\ call.action = "getOrderStatus"
  /\ resp = "order"
  /\ order.sessionId = "tx_1"
  /\ order.status = "Shipped"
  /\ order.trackingNumber = "1Z999AA10123456784"
  /\ order.emailSent = "Yes"
  /\ order.lastUpdated > order.date

\* C13.  The status query is a pure read: the step that answers one leaves
\* the rows, the clock, every execution in flight and the mails as they
\* were; and the answer of a query served with the spreadsheet available
\* is the value of getOrderStatus on the rows and the reference, whatever
\* was asked before, so that two queries for one reference with no write
\* between them get the same answer.
C13_Step ==
  call'.action = "getOrderStatus" =>
    /\ sheet' = sheet
    /\ now' = now
    /\ hvars' = hvars
    /\ rvars' = rvars
    /\ ghost' = ghost

C13_Answer ==
  (call.action = "getOrderStatus" /\ call.ok) =>
    /\ resp = GetOrderStatus(sheet, call.id).body
    /\ order = GetOrderStatus(sheet, call.id).order
    /\ resp = "order" <=> RowsOf(sheet, call.id) # {}
    /\ resp = "orderNotFound" <=> RowsOf(sheet, call.id) = {}

C13_PureRead == [](C13_Answer) /\ [][C13_Step]_vars

\* A query for an unknown reference answered while the tab holds two rows,
\* one of them notified.
C13_Witness ==
  /\ call.action = "getOrderStatus"
  /\ call.id = "cs_unknown"
  /\ resp = "orderNotFound"
  /\ Len(sheet) = 2
  /\ \E n \in 1..2 : sheet[n].emailSent = "Yes"

\* C14.  A status query for a reference without a row is answered with
\* {error: 'Order not found'}; a query under which the spreadsheet fails is
\* answered with an error of another text; neither answer carries an order,
\* and the order-status page shows the text of the error in both cases and
\* no order.
C14_NotFoundAndUnavailable ==
  call.action = "getOrderStatus" =>
    /\ (call.ok /\ RowsOf(sheet, call.id) = {})
         => /\ ErrorText(resp) = "Order not found"
            /\ order = NoOrder
            /\ FetchOrderStatus(resp, order).thrown = "Order not found"
            /\ FetchOrderStatus(resp, order).order = NoOrder
    /\ ~call.ok
         => /\ ErrorText(resp) \notin {"", "Order not found"}
            /\ order = NoOrder
            /\ FetchOrderStatus(resp, order).thrown \notin {"", "Order not found"}
            /\ FetchOrderStatus(resp, order).order = NoOrder

\* The spreadsheet failed under a query for a reference that has a row.
C14_Witness ==
  /\ call.action = "getOrderStatus"
  /\ ~call.ok
  /\ resp = "error"
  /\ RowsOf(sheet, call.id) # {}

\* C15.  When the spreadsheet fails under a payment-completed event (in
\* findOrderRow or in appendRow) the answer is an error, not the
\* acknowledgement, and every row stays as it was; and whatever failed
\* before, a delivery answered with the acknowledgement leaves exactly one
\* row with the event's id.
C15_Failure ==
  (CompletedEventReturned' /\ ~call'.ok) =>
    /\ resp' = "error"
    /\ sheet' = sheet

C15_Redelivered ==
  (CompletedEventReturned /\ call.ok) =>
    /\ resp = "received"
    /\ Cardinality(RowsOf(sheet, call.id)) = 1

C15_StoreUnavailable == [](C15_Redelivered) /\ [][C15_Failure]_vars

\* The spreadsheet failed under the event of an id that has no row, while
\* the tab holds the row of another id.
C15_Witness ==
  /\ CompletedEventReturned
  /\ ~call.ok
  /\ resp = "error"
  /\ RowsOf(sheet, call.id) = {}
  /\ Len(sheet) = 1

\* C16.  A payment-completed event without an id is rejected: it is
\* answered with an error, and no row without an id is ever in the tab.
C16_MissingIdRejected ==
  /\ \A n \in 1..Len(sheet) : sheet[n].sessionId # ""
  /\ (CompletedEventReturned /\ call.id = Undefined) => resp = "error"

\* C17.  Empty-cart rejection: a session-creation request whose cart is
\* missing, has no items list or has an empty one is answered with an
\* error in a step that does not call the processor and leaves the rows
\* and the executions in flight as they were; and a submit of the checkout
\* form with such a cart sends no request and does not enter the loading
\* state.
C17_Rejected ==
  /\ (call.action = "createCheckoutSession" /\ call.cart # "items")
       => (resp = "error" /\ ~fetch)
  /\ page.cart \in {"noItems", "empty"}
       => (page.sent = NoRequest /\ ~page.loading /\ page.errors # "none")

C17_Frame ==
  (call'.action = "createCheckoutSession" /\ call'.cart # "items")
    => (sheet' = sheet /\ hvars' = hvars)

C17_EmptyCartRejected == [](C17_Rejected) /\ [][C17_Frame]_vars

\* A request with an empty items list was turned away while the tab holds
\* a row.
C17_Witness ==
  /\ call.action = "createCheckoutSession"
  /\ call.cart = "empty"
  /\ resp = "error"
  /\ ~fetch
  /\ Len(sheet) = 1

\* C18 as stated.  For every non-empty tracking number: if the number
\* matches the USPS pattern the link is the USPS one; otherwise, if the
\* number has the prefix 1Z, the link is the UPS one and contains the
\* number; otherwise, if the number is exactly 12 digits, the link is the
\* FedEx one; otherwise the link is the USPS one.
C18_AsStated ==
  Len(link.number) > 0 =>
    IF MatchesUsps(link.number) THEN link.url.carrier = "usps"
    ELSE IF StartsWith1Z(link.number)
         THEN link.url.carrier = "ups" /\ link.url.label = link.number
    ELSE IF MatchesFedEx(link.number) THEN link.url.carrier = "fedex"
    ELSE link.url.carrier = "usps"

\* C18.  Tracking-link derivation, amended: the precedence USPS pattern,
\* prefix 1Z, exactly 12 digits, USPS by default is applied to the number
\* with surrounding white space removed and its letters in upper case, and
\* every link contains the number in that form.
C18_LinkPrecedence ==
  Len(link.number) > 0 =>
    /\ link.url.label = ToUpperCase(TrimChars(link.number))
    /\ IF MatchesUsps(link.url.label) THEN link.url.carrier = "usps"
       ELSE IF StartsWith1Z(link.url.label) THEN link.url.carrier = "ups"
       ELSE IF MatchesFedEx(link.url.label) THEN link.url.carrier = "fedex"
       ELSE link.url.carrier = "usps"

\* A number in lower case that matches the USPS pattern and has the
\* prefix 1Z once it is in upper case got the USPS link.
C18_Witness ==
  /\ link.number = <<"1", "z", "a", "2", "u", "s">>
  /\ link.url = Url("usps", <<"1", "Z", "A", "2", "U", "S">>)

\* C19.  The tracking number and the status of a row there is are changed
\* by no step of a web execution and by no step of a trigger execution
\* (only the administrator's edits change them), no row goes away, and a
\* row comes into being with a blank tracking number.
C19_Step ==
  /\ Len(sheet') >= Len(sheet)
  /\ \A n \in 1..Len(sheet) :
       (\/ sheet'[n].trackingNumber # sheet[n].trackingNumber
        \/ sheet'[n].status # sheet[n].status)
         => (call' = NoRequest /\ hvars' = hvars /\ rvars' = rvars)
  /\ \A n \in (Len(sheet) + 1)..Len(sheet') : sheet'[n].trackingNumber = ""

C19_TrackingKept == [][C19_Step]_vars

\* A trigger execution has marked a row whose status the administrator
\* changed after the execution had read the tab.
C19_Witness ==
  \E r \in Runs :
    /\ rpc[r] = "mark9"
    /\ rdata[r][ri[r]].status = "Placed"
    /\ sheet[ri[r]].status = "Shipped"
    /\ sheet[ri[r]].emailSent = "Yes"
    /\ sheet[ri[r]].trackingNumber = "1Z999AA10123456784"

\* C20.  Every mutation refreshes the time stamp: when a trigger execution
\* leaves the marking of a row, by going on or by failing, the row's Last
\* Updated cell holds the time of that step; and a row comes into being
\* with its Last Updated cell set to the time of the insertion.
C20_Step ==
  /\ \A r \in Runs :
       (rpc[r] = "mark9" /\ rpc'[r] # "mark9")
         => sheet'[ri[r]].lastUpdated = now
  /\ \A n \in (Len(sheet) + 1)..Len(sheet') : sheet'[n].lastUpdated = now

C20_StampRefreshed == [][C20_Step]_vars

\* C21.  The rows only grow, and only through ingestion: in every step
\* each row there is stays in its place with its id, a row is added only
\* by the step that saves a payment-completed event, and a step that
\* answers a session-creation request, a status query, or belongs to a
\* trigger execution adds none.
C21_Step ==
  /\ Len(sheet') >= Len(sheet)
  /\ \A n \in 1..Len(sheet) : sheet'[n].sessionId = sheet[n].sessionId
  /\ Len(sheet') > Len(sheet)
       => /\ CompletedEventReturned'
          /\ wlog' = Line("Order saved", call'.id)
          /\ rvars' = rvars
  /\ call'.action \in {"createCheckoutSession", "getOrderStatus"}
       => sheet' = sheet

C21_OnlyIngestionAdds == [][C21_Step]_vars

\* A session was created while the tab holds one row, and no row was
\* added for it.
C21_Witness ==
  /\ call.action = "createCheckoutSession"
  /\ resp = "checkout"
  /\ fetch
  /\ Len(sheet) = 1

\* C22.  Per-record failure isolation: a send that fails does not end the
\* execution (it goes on to the marking of the row), and when an execution
\* ends, every row that passed the test in its scan is marked and, unless
\* its own send failed, has got its mail.
C22_Step ==
  \A r \in Runs :
    /\ (rpc[r] = "send" /\ rpc'[r] # "send")
         => (rpc'[r] = "mark8" /\ ri'[r] = ri[r] /\ rdata'[r] = rdata[r])
    /\ (rpc[r] # "idle" /\ rpc'[r] = "idle")
         => \A n \in 1..Len(rdata[r]) :
              Eligible(rdata[r][n])
                => /\ sheet'[n].emailSent = "Yes"
                   /\ n \notin failed' => outbox'[n] >= 1

C22_FailureIsolated == [][C22_Step]_vars

\* The send for row 1 failed and the same execution has mailed row 2.
C22_Witness ==
  \E r \in Runs :
    /\ rpc[r] = "mark9"
    /\ ri[r] = 2
    /\ Eligible(rdata[r][1])
    /\ 1 \in failed
    /\ outbox[1] = 0
    /\ outbox[2] = 1

\* C23.  Eventual notification: with trigger executions recurring and sends
\* succeeding in the end, every row that has a tracking number (not blank
\* after trimming) is in the end marked as notified with a mail accepted
\* for it.
C23_EventuallyNotified ==
  \A n \in 1..MaxRows :
    (Len(sheet) >= n /\ Trim(sheet[n].trackingNumber) # "")
      ~> (Len(sheet) >= n /\ sheet[n].emailSent = "Yes" /\ outbox[n] >= 1)

\* C24.  When a trigger execution stops between two iterations of its loop,
\* every row it has sent a notification for is marked 'Yes', and every row
\* it had not reached has the mark and the stamp it had when the execution
\* read the tab, has been sent nothing, and still passes the test of the
\* next execution.
C24_StoppedBetweenIterations ==
  halt.at > 0 =>
    \A n \in 1..Len(halt.data) :
      /\ (n < halt.at /\ Eligible(halt.data[n])) =>
            (sheet[n].emailSent = "Yes" /\ outbox[n] >= 1)
      /\ n >= halt.at =>
            /\ sheet[n].emailSent = halt.data[n].emailSent
            /\ sheet[n].lastUpdated = halt.data[n].lastUpdated
            /\ Eligible(halt.data[n]) => (Eligible(sheet[n]) /\ outbox[n] = 0)

\* An execution was stopped before its second row, with the first row sent
\* and marked and the second still waiting.
C24_Witness ==
  /\ halt.at = 2
  /\ Eligible(halt.data[1])
  /\ sheet[1].emailSent = "Yes"
  /\ outbox[1] = 1
  /\ outbox[2] = 0
  /\ Eligible(sheet[2])
  /\ sheet[1].lastUpdated > halt.data[1].lastUpdated

\* C25.  One trigger execution sends at most one notification per
\* transaction id: the row it has just sent a mail for has the id of no
\* row it dealt with earlier in the same pass over its data.
C25_OncePerIdPerRun ==
  \A r \in Runs :
    rpc[r] \in {"mark8", "mark9"} =>
      \A j \in 1..(ri[r] - 1) :
        Eligible(rdata[r][j]) =>
          rdata[r][j].sessionId # rdata[r][ri[r]].sessionId

\* C26.  A trigger execution sends a notification for a row, and marks or
\* stamps it, only if in the data it read at its start the row's tracking
\* number is not blank after trimming and its mark is not 'Yes'; a row with
\* an empty or all-blank tracking number, or already marked, is sent
\* nothing and is not modified by the execution.
C26_Due(row) ==
  Trim(row.trackingNumber) # "" /\ row.emailSent # "Yes"

C26_AtDueRow ==
  \A r \in Runs :
    rpc[r] # "idle" => (ri[r] \in 1..Len(rdata[r]) /\ C26_Due(rdata[r][ri[r]]))

C26_Step ==
  \A n \in 1..Len(sheet) :
    (\/ outbox'[n] # outbox[n]
     \/ failed' \cap {n} # failed \cap {n}
     \/ sheet'[n].emailSent # sheet[n].emailSent
     \/ sheet'[n].lastUpdated # sheet[n].lastUpdated)
      => \E r \in Runs :
           rpc[r] # "idle" /\ ri[r] = n /\ C26_Due(rdata[r][n])

C26_SendsOnlyWhenDue == []C26_AtDueRow /\ [][C26_Step]_vars

\* An execution has passed over a first row whose tracking cell holds a
\* blank and has sent the mail of the second row.
C26_Witness ==
  \E r \in Runs :
    /\ rpc[r] = "mark8"
    /\ ri[r] = 2
    /\ rdata[r][1].trackingNumber = " "
    /\ sheet[1].emailSent = "No"
    /\ outbox[1] = 0
    /\ outbox[2] = 1

\* C27.  A marking step of a trigger execution writes only the Tracking
\* Email Sent and Last Updated cells of the row at its loop index: every
\* other cell of that row and every other row is after the step what it was
\* before it, so what the administrator wrote after the execution read the
\* tab is kept.
C27_Step ==
  \A r \in Runs :
    (rpc[r] \in {"mark8", "mark9"} /\ rpc'[r] # rpc[r]) =>
      /\ Len(sheet') = Len(sheet)
      /\ \A n \in 1..Len(sheet) :
           IF n = ri[r]
           THEN sheet'[n] = [sheet[n] EXCEPT
                               !.emailSent = sheet'[n].emailSent,
                               !.lastUpdated = sheet'[n].lastUpdated]
           ELSE sheet'[n] = sheet[n]

C27_MarkWritesTwoCells == [][C27_Step]_vars

\* An execution has marked and stamped its first row and gone on to the
\* second; the first row has the status, and the second the tracking
\* number's row the status, that the administrator wrote after the scan.
C27_Witness ==
  \E r \in Runs :
    /\ rpc[r] = "send"
    /\ ri[r] = 2
    /\ rdata[r][1].status = "Placed"
    /\ rdata[r][2].status = "Placed"
    /\ sheet[1].status = "Shipped"
    /\ sheet[2].status = "Shipped"
    /\ sheet[1].emailSent = "Yes"
    /\ sheet[1].lastUpdated = MaxClock

\* C28.  While web executions add rows during a trigger execution, every
\* row the execution read stays at its position, so the row at the loop
\* index has the transaction id of the row the mail was sent for, and the
\* mark written after the send changes that row and no other.
C28_PositionsValid ==
  \A r \in Runs :
    rpc[r] # "idle" =>
      /\ Len(rdata[r]) <= Len(sheet)
      /\ \A n \in 1..Len(rdata[r]) : sheet[n].sessionId = rdata[r][n].sessionId

C28_Step ==
  \A r \in Runs :
    (rpc[r] = "mark8" /\ rpc'[r] = "mark9") =>
      /\ sheet'[ri[r]].emailSent = "Yes"
      /\ sheet'[ri[r]].sessionId = rdata[r][ri[r]].sessionId
      /\ \A n \in 1..Len(sheet) : n # ri[r] => sheet'[n] = sheet[n]

C28_MarkOnSameRow == []C28_PositionsValid /\ [][C28_Step]_vars

\* A row was added while an execution was between its send and its mark;
\* the mark is on the row the execution read.
C28_Witness ==
  \E r \in Runs :
    /\ rpc[r] = "mark9"
    /\ Len(rdata[r]) = 1
    /\ Len(sheet) = 2
    /\ sheet[2].sessionId # sheet[1].sessionId
    /\ sheet[1].emailSent = "Yes"
    /\ sheet[2].emailSent = "No"
    /\ outbox[1] = 1

\* C29.  Routing of POST requests.  A request is handed to
\* handleStripeWebhook only if it carries the signature parameter and its
\* body's action is not 'createCheckoutSession'; a request whose body's
\* action is 'createCheckoutSession' is answered by createCheckoutSession
\* alone; a request with neither is answered 'Invalid action'; a body that
\* cannot be parsed is answered with an error; and in the last three cases
\* the rows and the executions in flight are left as they were.
C29_Ingesting ==
  \/ resp = "received"
  \/ wlog.line \in {"Error handling webhook", "Order already exists",
                     "Order saved", "Error saving order"}

C29_Routed ==
  /\ C29_Ingesting =>
       (call.signature # "" /\ call.action \notin {"createCheckoutSession", Unparsable})
  /\ \A h \in Handlers :
       hpc[h] = "append" =>
         (hreq[h].signature # ""
            /\ hreq[h].action \notin {"createCheckoutSession", Unparsable})
  /\ call.action = "createCheckoutSession" =>
       (resp \in {"checkout", "error"}
          /\ wlog.line \in {"none", "Error creating checkout session"})
  /\ (call # NoRequest /\ call.action = "none" /\ call.signature = "")
       => (resp = "invalidAction" /\ wlog = NoLine)
  /\ call.action = Unparsable =>
       (resp = "error" /\ wlog.line = "Error in doPost")

C29_Frame ==
  (\/ call'.action \in {"createCheckoutSession", Unparsable}
   \/ (call' # NoRequest /\ call'.action = "none" /\ call'.signature = ""))
    => (sheet' = sheet /\ hvars' = hvars)

C29_PostRouting == []C29_Routed /\ [][C29_Frame]_vars

\* A session-creation request that carries the signature parameter was
\* answered with a checkout session while the tab holds a row.
C29_Witness ==
  /\ call.action = "createCheckoutSession"
  /\ call.signature = ValidSignature
  /\ resp = "checkout"
  /\ fetch
  /\ Len(sheet) = 1

\* C30.  For every tracking number that is not empty, the link the
\* order-status page shows is the link the script's getTrackingUrl puts in
\* the notification mail.
C30_SameLink ==
  link.number # <<>> => link.url = GetTrackingUrl(link.number)

\* The page showed the UPS link, with the number trimmed and in upper case,
\* for a number typed in lower case with a blank after it.
C30_Witness ==
  /\ link.number = <<"1", "z", "a", "2", " ">>
  /\ link.url = Url("ups", <<"1", "Z", "A", "2">>)
  /\ link.url = GetTrackingUrl(link.number)

\* C31.  One click on an "Add to Cart" button with valid product data,
\* the write to localStorage working, adds the product once: its quantity
\* in the stored cart is 1 more than it was (1 if it had no item), all the
\* click listeners registered by initAddToCart counted.
C31_ClickAddsOne ==
  (tap.productId # "none" /\ tap.valid /\ tap.saved)
    => QuantityOf(items, tap.productId) = tap.was + 1

\* C33.  Whatever calls of Cart.add, Cart.remove, Cart.updateQuantity and
\* Cart.clear are made from the empty cart on, no two items of the stored
\* cart have the same productId; and a step adds at most one item, whose
\* product had no item before (a product that has one gets its quantity
\* changed).
C33_Distinct ==
  \A j \in 1..Len(items), k \in 1..Len(items) :
    items[j].productId = items[k].productId => j = k

C33_Step ==
  /\ Len(items') <= Len(items) + 1
  /\ Len(items') = Len(items) + 1 =>
       /\ FindIndex(items, items'[Len(items')].productId) = 0
       /\ SubSeq(items', 1, Len(items)) = items

C33_NoDuplicateProduct == []C33_Distinct /\ [][C33_Step]_vars

\* A product that had an item with quantity 2 was added once more, next to
\* an item of the other product: its item has quantity 3 and the cart still
\* has two items.
C33_Witness ==
  /\ Len(items) = 2
  /\ tap.productId = items[1].productId
  /\ tap.valid
  /\ tap.saved
  /\ tap.was = 2
  /\ items[1].quantity = 3

\* C34.  Whatever calls of Cart.add, Cart.remove and Cart.updateQuantity
\* (with any integer as quantity) and Cart.clear are made from the empty
\* cart on, every item of the stored cart has a quantity of 1 or more.
C34_QuantitiesPositive ==
  \A k \in 1..Len(items) : items[k].quantity >= 1

\* C32.  The submit of the checkout form.  When the validation of the form
\* fails or the cart is empty, no request is sent and the page is not
\* loading; a request is sent only by a page that is loading already; the
\* browser leaves for the checkout only on a response with a checkout URL;
\* and after a request that failed (fetch rejected, error status, body
\* that is not JSON, error member, no checkout URL, script URL not
\* configured) the page is not loading and the form can be submitted again.
C32_States ==
  /\ form.errors \in {"form", "cart"} =>
       (~form.loading /\ form.sent = <<>> /\ form.pc = "form" /\ ~form.left)
  /\ form.pc \in {"create", "waiting"} => (form.loading /\ form.errors = "none")
  /\ form.sent # <<>> => form.response # "unconfigured"
  /\ form.left <=> (form.response = "url" /\ form.pc = "left")
  /\ form.response \notin {"none", "url"} =>
       (~form.loading /\ form.pc = "form" /\ form.errors = "request")

C32_Step ==
  /\ (form'.errors \in {"form", "cart"} /\ form' # form) =>
       (~form.loading /\ form.pc = "form")
  /\ (form.sent = <<>> /\ form'.sent # <<>>) =>
       (form.loading /\ form'.loading /\ form'.sent = form.cart)
  /\ (~form.left /\ form'.left) => (form.pc = "waiting" /\ form.sent # <<>>)

C32_CheckoutSubmission == []C32_States /\ [][C32_Step]_vars

\* A request was sent and came back without a checkout URL: the page shows
\* the error, is not loading and has not left.
C32_Witness ==
  /\ form.response = "noUrl"
  /\ form.sent # <<>>
  /\ form.errors = "request"
  /\ ~form.loading
  /\ ~form.left
  /\ form.pc = "form"

====
